---- MODULE Spec2Model ----
(***************************************************************************)
(* AuthorizationGuard.canActivate of nestjs-bff                            *)
(* (packages/backend/src/host/http/core/guards/authorization.guard.ts).    *)
(*                                                                         *)
(* Each element of Calls is one invocation of canActivate.  canActivate is *)
(* an async function: it runs synchronously up to its first await and then *)
(* resumes once per awaited promise, so concurrent invocations interleave  *)
(* at the awaits of getOrgIdFromSlug, cacheStore.wrap and isAuthorized.    *)
(* The cache store, the clock, and the reflector metadata are shared.      *)
(***************************************************************************)
EXTENDS Naturals, Sequences, FiniteSets

(* ------------------------------------------------------------------ *)
(* Bounds                                                             *)
(* ------------------------------------------------------------------ *)

\* Number of clock advances in a behaviour.
MaxTicks == 2

\* The canActivate invocations of a behaviour; they may overlap or follow
\* one another.
Calls == {"c1", "c2"}

(* ------------------------------------------------------------------ *)
(* Values                                                             *)
(* ------------------------------------------------------------------ *)

\* JavaScript undefined, for string-valued slots.
Absent == "undefined"

\* Reflector metadata: reflector.get returns undefined or a list of authchecks.
NoMeta == [defined |-> FALSE, rules |-> << >>]

Meta(rs) == [defined |-> TRUE, rules |-> rs]

\* Variant of CacheTtl: a day instead of a week.
CacheTtlOneDay == 60 * 60 * 24

\* cacheStore.wrap is called with ttl: 60 * 60 * 24 * 7 (seconds).
CacheTtl == 60 * 60 * 24 * 7

\* One clock advance: half of a week, so an entry is still cached after one
\* advance and has expired after two.
TickSeconds == (60 * 60 * 24 * 7) \div 2

(* ------------------------------------------------------------------ *)
(* Configuration: controllers, handlers, their 'authorization'        *)
(* metadata and their source text                                     *)
(* ------------------------------------------------------------------ *)

\* The matched route: context.getClass() and context.getHandler().
Routes ==
    { [class |-> "CatsController", handler |-> "findAll"],
      [class |-> "CatsController", handler |-> "create"],
      [class |-> "CatsController", handler |-> "remove"],
      [class |-> "OrgController", handler |-> "ping"],
      [class |-> "OrgController", handler |-> "member"] }

\* reflector.get('authorization', context.getClass())
ClassMeta(c) ==
    IF c = "CatsController" THEN Meta(<<"Pass">>) ELSE NoMeta

\* reflector.get('authorization', context.getHandler())
HandlerMeta(h) ==
    CASE h = "findAll" -> NoMeta
      [] h = "create"  -> Meta(<<"Pass", "Fail", "Pass">>)
      [] h = "remove"  -> Meta(<< >>)
      [] h = "ping"    -> NoMeta
      [] h = "member"  -> Meta(<<"OrgMember", "SelfOnly", "Pass">>)

\* `${context.getClass()}`: a function in a template literal is converted by
\* Function.prototype.toString, i.e. to its source text (here as compiled
\* for ES5, where a class is its constructor function).
ClassText(c) ==
    IF c = "CatsController" THEN "function CatsController(svc) { this.svc = svc; }"
    ELSE "function OrgController(svc) { this.svc = svc; }"

\* `${context.getHandler()}`: the source text of the handler function.  Two
\* distinct handler functions can have the same text: findAll and create
\* have the same body and differ in their 'authorization' metadata.
HandlerText(h) ==
    CASE h = "findAll" -> "function (dto) { return this.svc.run(dto); }"
      [] h = "create"  -> "function (dto) { return this.svc.run(dto); }"
      [] h = "remove"  -> "function (id) { return this.svc.remove(id); }"
      [] h = "ping"    -> "function () { return 'pong'; }"
      [] h = "member"  -> "function (slug) { return this.svc.member(slug); }"

(* ------------------------------------------------------------------ *)
(* Requests                                                           *)
(* ------------------------------------------------------------------ *)

Urls == {"/public/health", "/api/resource"}

\* req.authorization: undefined or the entity attached upstream.
Authorizations == {Absent, "user_1"}

\* req.params['organizationSlug']
Slugs == {Absent, "acme", "ghost"}

\* req.params['userId']
UserIds == {Absent, "user_1"}

\* context.switchToHttp().getRequest() returning nothing.
NullReq ==
    [missing |-> TRUE, url |-> "/api/resource", authorization |-> Absent,
     slug |-> Absent, userId |-> Absent,
     route |-> [class |-> "OrgController", handler |-> "ping"]]

Requests ==
    {NullReq} \cup
    [missing : {FALSE}, url : Urls, authorization : Authorizations,
     slug : Slugs, userId : UserIds, route : Routes]

\* Organizations the requesting entity may act on.
OrgsOf(a) == IF a = "user_1" THEN {"org_1"} ELSE {}

(* ------------------------------------------------------------------ *)
(* Collaborators                                                      *)
(* ------------------------------------------------------------------ *)

\* nestjsBffConfig.http.publicRouteRegex.test(req.originalUrl)
IsPublicRoute(url) == url = "/public/health"

\* organizationCache.findOne({ slug }): the organization, or nothing.
FindOne(slug) ==
    IF slug = "acme" THEN [found |-> TRUE, id |-> "org_1"]
    ELSE [found |-> FALSE, id |-> Absent]

\* authcheck.isAuthorized({ requestingEntity, orgIdForTargetResource,
\* userIdForTargetResource }) for the authchecks of the configuration:
\* what the promise settles with.  SelfOnly rejects when the route has no
\* userId parameter.
IsAuthorized(rule, entity, org, user) ==
    CASE rule = "Pass"      -> "true"
      [] rule = "Fail"      -> "false"
      [] rule = "OrgMember" -> IF org # Absent /\ org \in OrgsOf(entity) THEN "true" ELSE "false"
      [] rule = "SelfOnly"  -> IF user = Absent THEN "throw"
                               ELSE IF user = entity THEN "true" ELSE "false"

\* A cache slot: empty, or a value stored at a time with a time to live.
NoEntry == [present |-> FALSE, value |-> NoMeta, storedAt |-> 0, ttl |-> 0]

Entry(v, t, ttl) == [present |-> TRUE, value |-> v, storedAt |-> t, ttl |-> ttl]

\* wrap returns the cached value if it is present and unexpired.
Fresh(e, t) == e.present /\ t < e.storedAt + e.ttl

(* ------------------------------------------------------------------ *)
(* The guard's own functions                                          *)
(* ------------------------------------------------------------------ *)

\* Variant of OnError: the error leaves canActivate.
OnErrorRethrow == "exception"

\* The catch block: log the error, return false.
OnError == "deny"

\* Variant of SyncDecision: the authorization is looked at before the route.
SyncDecisionAuthFirst(r) ==
    CASE r.missing                 -> "throw"
      [] r.authorization = Absent  -> "deny"
      [] IsPublicRoute(r.url)      -> "allow"
      [] OTHER                     -> "continue"

\* Variant of SyncDecision: a missing authorization is not looked at.
SyncDecisionNoAuthCheck(r) ==
    CASE r.missing                 -> "throw"
      [] IsPublicRoute(r.url)      -> "allow"
      [] OTHER                     -> "continue"

\* canActivate up to its first await: the request, the public-route test,
\* the authorization attached to the request.
SyncDecision(r) ==
    CASE r.missing                 -> "throw"
      [] IsPublicRoute(r.url)      -> "allow"
      [] r.authorization = Absent  -> "deny"
      [] OTHER                     -> "continue"

\* Variant of getOrgIdFromSlug: the slug is returned in place of the id.
getOrgIdFromSlugEcho(slug, o) ==
    IF slug = Absent THEN Absent ELSE slug

\* getOrgIdFromSlug; o is what findOne answers for the slug (not asked when
\* there is no slug).
getOrgIdFromSlug(slug, o) ==
    IF slug = Absent THEN Absent
    ELSE IF ~o.found THEN Absent
    ELSE o.id

\* The cache key: a template literal over the class and the handler.
authcheckCacheKey(route) ==
    <<"AuthorizationGuard-authcheck?class=", ClassText(route.class),
      "&handler=", HandlerText(route.handler), ")">>

\* Handler metadata first, controller metadata when the handler has none.
getauthcheck(route) ==
    IF HandlerMeta(route.handler).defined THEN HandlerMeta(route.handler)
    ELSE ClassMeta(route.class)

\* Variant of NoAuthchecks: the length is not looked at.
NoAuthchecksUndefinedOnly(a) == ~a.defined

\* !authchecks || authchecks.length === 0
NoAuthchecks(a) == ~a.defined \/ Len(a.rules) = 0

\* Variant of AfterAuthcheck: a false answer does not end the loop.
AfterAuthcheckNoShortCircuit(out, last) ==
    CASE out = "throw"            -> "throw"
      [] last /\ out = "false"    -> "deny"
      [] last                     -> "allow"
      [] OTHER                    -> "next"

\* Variant of AfterAuthcheck: the first true answer ends the loop in allow.
AfterAuthcheckFirstPassAllows(out, last) ==
    CASE out = "throw"  -> "throw"
      [] out = "false"  -> "deny"
      [] OTHER          -> "allow"

\* One turn of the for-of loop, after isAuthorized has answered: a rejected
\* promise throws, a false answer returns false, a true answer goes on to
\* the next authcheck, and after the last one canActivate returns true.
AfterAuthcheck(out, last) ==
    CASE out = "throw"  -> "throw"
      [] out = "false"  -> "deny"
      [] last           -> "allow"
      [] OTHER          -> "next"

(* ------------------------------------------------------------------ *)
(* State                                                              *)
(* ------------------------------------------------------------------ *)

VARIABLES
    call,     \* per invocation: position, locals, and what it has done
    cache,    \* the cache store: key -> slot
    now,      \* the clock, in seconds
    ticks     \* clock advances so far

vars == <<call, cache, now, ticks>>

Keys == {authcheckCacheKey(r) : r \in Routes}

IdleCall ==
    [pc |-> "idle", req |-> NullReq, orgId |-> Absent, authchecks |-> NoMeta,
     log |-> << >>, result |-> "none", consulted |-> {}, threw |-> FALSE,
     looked |-> FALSE, seen |-> [present |-> FALSE, value |-> NoMeta], seenAge |-> 0,
     resolved |-> FALSE]

Init ==
    /\ call = [c \in Calls |-> IdleCall]
    /\ cache = [k \in Keys |-> NoEntry]
    /\ now = 0
    /\ ticks = 0

\* The value canActivate's promise settles with.
Return(rec, outcome) ==
    [rec EXCEPT !.pc = "done",
                !.result = IF outcome = "throw" THEN OnError ELSE outcome,
                !.threw = (outcome = "throw")]

\* canActivate once getauthchecksFromCache has answered with v.
\* The for-of loop ends at once over a list with no element, and canActivate
\* returns true after the loop.
GotAuthchecks(rec, v) ==
    LET got == [rec EXCEPT !.authchecks = v, !.resolved = TRUE]
    IN IF NoAuthchecks(v) THEN Return(got, "deny")
       ELSE IF Len(v.rules) = 0 THEN Return(got, "allow")
       ELSE [got EXCEPT !.pc = "authcheck"]

(* ------------------------------------------------------------------ *)
(* Steps                                                              *)
(* ------------------------------------------------------------------ *)

\* canActivate is invoked with request r and runs to its first await.
Start(c, r) ==
    /\ call[c].pc = "idle"
    /\ LET rec == [call[c] EXCEPT !.req = r]
           d == SyncDecision(r)
       IN call' = [call EXCEPT ![c] =
                     IF d = "continue" THEN [rec EXCEPT !.pc = "org"]
                     ELSE Return(rec, d)]
    /\ UNCHANGED <<cache, now, ticks>>

\* await this.getOrgIdFromSlug(req.params['organizationSlug'])
OrgLookup(c) ==
    /\ call[c].pc = "org"
    /\ LET rec == call[c]
           slug == rec.req.slug
       IN IF slug = Absent
          THEN call' = [call EXCEPT ![c] =
                          [rec EXCEPT !.orgId = getOrgIdFromSlug(slug, FindOne(slug)),
                                      !.pc = "wrap"]]
          ELSE \E ok \in BOOLEAN :
                 call' = [call EXCEPT ![c] =
                   IF ok
                   THEN [rec EXCEPT !.orgId = getOrgIdFromSlug(slug, FindOne(slug)),
                                    !.consulted = @ \cup {"repo"},
                                    !.pc = "wrap"]
                   ELSE Return([rec EXCEPT !.consulted = @ \cup {"repo"}], "throw")]
    /\ UNCHANGED <<cache, now, ticks>>

\* getauthchecksFromCache: cacheStore.wrap looks the key up.
WrapLookup(c) ==
    /\ call[c].pc = "wrap"
    /\ LET rec == [call[c] EXCEPT !.consulted = @ \cup {"cache"}]
           e == cache[authcheckCacheKey(rec.req.route)]
           read == [rec EXCEPT !.looked = TRUE,
                               !.seen = [present |-> e.present, value |-> e.value],
                               !.seenAge = IF e.present THEN now - e.storedAt ELSE 0]
       IN \E ok \in BOOLEAN :
            call' = [call EXCEPT ![c] =
              IF ~ok THEN Return(rec, "throw")
              ELSE IF Fresh(e, now) THEN GotAuthchecks(read, e.value)
              ELSE [read EXCEPT !.pc = "compute"]]
    /\ UNCHANGED <<cache, now, ticks>>

\* cacheStore.wrap on a miss: run () => this.getauthcheck(context), store
\* the result under the key with the ttl, return it.
WrapCompute(c) ==
    /\ call[c].pc = "compute"
    /\ LET rec == [call[c] EXCEPT !.consulted = @ \cup {"source"}]
           v == getauthcheck(rec.req.route)
       IN \E ok \in BOOLEAN :
            IF ok
            THEN /\ call' = [call EXCEPT ![c] = GotAuthchecks(rec, v)]
                 /\ cache' = [cache EXCEPT ![authcheckCacheKey(rec.req.route)] =
                                 Entry(v, now, CacheTtl)]
            ELSE /\ call' = [call EXCEPT ![c] = Return(rec, "throw")]
                 /\ cache' = cache
    /\ UNCHANGED <<now, ticks>>

\* One turn of the loop: await authcheck.isAuthorized({...}).
Authcheck(c) ==
    /\ call[c].pc = "authcheck"
    /\ LET rec == call[c]
           i == Len(rec.log) + 1
           rule == rec.authchecks.rules[i]
           out == IsAuthorized(rule, rec.req.authorization, rec.orgId, rec.req.userId)
           entry == [rule |-> rule,
                     requestingEntity |-> rec.req.authorization,
                     orgIdForTargetResource |-> rec.orgId,
                     userIdForTargetResource |-> rec.req.userId,
                     out |-> out]
           logged == [rec EXCEPT !.log = Append(@, entry)]
           d == AfterAuthcheck(out, i = Len(rec.authchecks.rules))
       IN call' = [call EXCEPT ![c] =
                     IF d = "next" THEN logged ELSE Return(logged, d)]
    /\ UNCHANGED <<cache, now, ticks>>

\* Time passes.
Tick ==
    /\ ticks < MaxTicks
    /\ ticks' = ticks + 1
    /\ now' = now + TickSeconds
    /\ UNCHANGED <<call, cache>>

Next ==
    \/ \E c \in Calls, r \in Requests : Start(c, r)
    \/ \E c \in Calls : OrgLookup(c)
    \/ \E c \in Calls : WrapLookup(c)
    \/ \E c \in Calls : WrapCompute(c)
    \/ \E c \in Calls : Authcheck(c)
    \/ Tick

Spec == Init /\ [][Next]_vars

(* ------------------------------------------------------------------ *)
(* Properties                                                         *)
(* ------------------------------------------------------------------ *)

Started(c) == call[c].pc # "idle"

Done(c) == call[c].pc = "done"

\* The request exists and its originalUrl matches the public-route pattern.
OnPublicRoute(c) == ~call[c].req.missing /\ IsPublicRoute(call[c].req.url)

\* The request exists and its originalUrl does not match the pattern.
OnGuardedRoute(c) == ~call[c].req.missing /\ ~IsPublicRoute(call[c].req.url)

\* The rule set configured for a route: the handler's when it has one,
\* whatever the controller has; the controller's otherwise.
ConfiguredFor(route) ==
    IF HandlerMeta(route.handler) # NoMeta THEN HandlerMeta(route.handler)
    ELSE ClassMeta(route.class)

\* Every rule of the call's resolved rule set has been invoked, in list
\* order, and has returned true.
AllInvokedAndPassed(c) ==
    /\ Len(call[c].log) = Len(call[c].authchecks.rules)
    /\ \A i \in 1..Len(call[c].log) :
         /\ call[c].log[i].rule = call[c].authchecks.rules[i]
         /\ call[c].log[i].out = "true"

\* C1: a request on a public route is allowed whether or not it carries an
\* authorization context, and nothing else is consulted for it: not the
\* organization repository, not the cache, not the rule source, no rule.
C1_PublicRouteAllowed ==
    \A c \in Calls :
        Started(c) /\ OnPublicRoute(c) =>
            /\ Done(c)
            /\ call[c].result = "allow"
            /\ call[c].consulted = {}
            /\ ~call[c].looked
            /\ call[c].log = << >>

C1_Witness ==
    \E c \in Calls :
        /\ Done(c) /\ OnPublicRoute(c)
        /\ call[c].req.authorization = Absent
        /\ call[c].req.route.handler = "create"
        /\ call[c].result = "allow"

\* C2: a request on a non-public route with no authorization context is
\* denied at once, whatever rule set the route has.
C2_NoAuthorizationDenied ==
    \A c \in Calls :
        Started(c) /\ OnGuardedRoute(c) /\ call[c].req.authorization = Absent =>
            /\ Done(c)
            /\ call[c].result = "deny"
            /\ call[c].log = << >>

C2_Witness ==
    \E c \in Calls :
        /\ Done(c) /\ OnGuardedRoute(c)
        /\ call[c].req.authorization = Absent
        /\ call[c].req.route.handler = "findAll"
        /\ call[c].result = "deny"

\* C3: on a non-public route, a call whose resolved rule set is absent or
\* an empty list ends in deny and invokes no rule, also with an
\* authorization context present.
C3_FailClosed ==
    \A c \in Calls :
        /\ OnGuardedRoute(c) /\ call[c].resolved
        /\ (~call[c].authchecks.defined \/ call[c].authchecks.rules = << >>)
        => /\ Done(c)
           /\ call[c].result = "deny"
           /\ call[c].log = << >>

C3_Witness ==
    \E c, d \in Calls :
        /\ Done(c) /\ call[c].resolved /\ call[c].req.authorization = "user_1"
        /\ call[c].authchecks = NoMeta /\ call[c].result = "deny"
        /\ Done(d) /\ call[d].resolved /\ call[d].req.authorization = "user_1"
        /\ call[d].authchecks = Meta(<< >>) /\ call[d].result = "deny"
        /\ ClassMeta(call[d].req.route.class).defined

\* C4: the rule set a call evaluates is its handler's whenever the handler
\* has one, and the controller's only when the handler has none.
C4_HandlerOverridesController ==
    \A c \in Calls :
        call[c].resolved =>
            /\ (HandlerMeta(call[c].req.route.handler).defined =>
                   call[c].authchecks = HandlerMeta(call[c].req.route.handler))
            /\ (~HandlerMeta(call[c].req.route.handler).defined =>
                   call[c].authchecks = ClassMeta(call[c].req.route.class))

\* C5: rules are invoked one at a time in list order; a rule is invoked only
\* after every rule before it has returned true; the first false ends the
\* call in deny; when every rule has returned true the call ends in allow.
C5_OrderedShortCircuit ==
    \A c \in Calls :
        /\ Len(call[c].log) <= Len(call[c].authchecks.rules)
        /\ \A i \in 1..Len(call[c].log) :
             /\ call[c].log[i].rule = call[c].authchecks.rules[i]
             /\ (i < Len(call[c].log) => call[c].log[i].out = "true")
             /\ (call[c].log[i].out = "false" => Done(c) /\ call[c].result = "deny")
        /\ (call[c].resolved /\ call[c].authchecks.rules # << >> /\ AllInvokedAndPassed(c)
               => Done(c) /\ call[c].result = "allow")

C5_Witness ==
    \E c, d \in Calls :
        /\ Done(c)
        /\ call[c].authchecks.rules = <<"Pass", "Fail", "Pass">>
        /\ Len(call[c].log) = 2
        /\ call[c].log[1].out = "true" /\ call[c].log[2].out = "false"
        /\ call[c].result = "deny"
        /\ Done(d)
        /\ call[d].authchecks.rules = <<"OrgMember", "SelfOnly", "Pass">>
        /\ AllInvokedAndPassed(d)
        /\ call[d].result = "allow"

\* C6: a call settles with allow or deny and nothing else; a call in which
\* a rule or a lookup threw, or whose request is missing, settles with deny.
C6_ErrorsDeny ==
    \A c \in Calls :
        /\ (Done(c) => call[c].result \in {"allow", "deny"})
        /\ (~Done(c) => call[c].result = "none")
        /\ (call[c].threw => Done(c) /\ call[c].result = "deny")
        /\ (Started(c) /\ call[c].req.missing => call[c].threw)
        /\ (Len(call[c].log) > 0 /\ call[c].log[Len(call[c].log)].out = "throw"
               => call[c].threw)

C6_Witness ==
    \E c, d \in Calls :
        /\ Done(c) /\ call[c].threw /\ call[c].result = "deny"
        /\ Len(call[c].log) = 2 /\ call[c].log[2].out = "throw"
        /\ Done(d) /\ call[d].threw /\ call[d].result = "deny"
        /\ call[d].consulted = {"repo", "cache", "source"}
        /\ call[d].log = << >>

\* C7 as stated: within one week of a rule set being stored under a key the
\* rule-source lookup does not run again for that key, so no call runs it
\* while the cache holds a rule set stored under its key less than a week
\* before.
C7_AtMostOncePerWindow ==
    [][\A c \in Calls :
         /\ "source" \notin call[c].consulted
         /\ "source" \in call'[c].consulted
         => ~(/\ cache[authcheckCacheKey(call[c].req.route)].present
              /\ now < cache[authcheckCacheKey(call[c].req.route)].storedAt
                          + 60 * 60 * 24 * 7)]_vars

\* C7 amended: a call that looks its key up less than a week after a rule
\* set was stored under it does not run the rule-source lookup and uses the
\* stored rule set, absent and empty ones included; a call that finds
\* nothing stored, or a rule set stored a week or more before, runs it.
C7_CachedWithinTtl ==
    \A c \in Calls :
        call[c].looked =>
            IF call[c].seen.present /\ call[c].seenAge < 60 * 60 * 24 * 7
            THEN /\ "source" \notin call[c].consulted
                 /\ call[c].resolved
                 /\ call[c].authchecks = call[c].seen.value
            ELSE \/ call[c].pc = "compute"
                 \/ "source" \in call[c].consulted

C7_Witness ==
    \E c, d \in Calls :
        /\ call[c].req.route = call[d].req.route
        /\ call[c].resolved /\ "source" \in call[c].consulted
        /\ call[c].authchecks = NoMeta
        /\ Done(d) /\ call[d].looked /\ call[d].seen.present
        /\ call[d].seen.value = NoMeta
        /\ call[d].seenAge > 0
        /\ "source" \notin call[d].consulted

\* C8: every rule invoked for a request receives the request's
\* authorization, the id of the organization the repository has for the
\* route's slug (undefined when there is no slug or no such organization)
\* and the route's userId; a call with no organization id is denied only
\* by a rule returning false.
C8_OrgIdPassedToRules ==
    \A c \in Calls :
        /\ \A i \in 1..Len(call[c].log) :
             /\ call[c].log[i].requestingEntity = call[c].req.authorization
             /\ call[c].log[i].userIdForTargetResource = call[c].req.userId
             /\ call[c].log[i].orgIdForTargetResource =
                  IF call[c].req.slug # Absent /\ FindOne(call[c].req.slug).found
                  THEN FindOne(call[c].req.slug).id
                  ELSE Absent
        /\ (/\ Done(c) /\ ~call[c].threw /\ call[c].resolved
            /\ call[c].authchecks.rules # << >>
            /\ (call[c].req.slug = Absent \/ ~FindOne(call[c].req.slug).found)
            => /\ Len(call[c].log) > 0
               /\ (call[c].result = "deny"
                     <=> call[c].log[Len(call[c].log)].out = "false"))

C8_Witness ==
    \E c, d \in Calls :
        /\ Done(c) /\ call[c].req.slug = "acme" /\ call[c].req.userId = "user_1"
        /\ Len(call[c].log) = 3
        /\ call[c].log[3].orgIdForTargetResource = "org_1"
        /\ call[c].log[3].userIdForTargetResource = "user_1"
        /\ Done(d) /\ call[d].req.slug = "ghost"
        /\ "repo" \in call[d].consulted
        /\ Len(call[d].log) = 1
        /\ call[d].log[1].orgIdForTargetResource = Absent
        /\ call[d].result = "allow"

\* The decision of a call running alone with no lookup failing: the rules
\* configured for its route, in order, up to the first that does not
\* return true.
RECURSIVE RulesAlone(_, _, _)
RulesAlone(rules, i, r) ==
    IF i > Len(rules) THEN "allow"
    ELSE IF IsAuthorized(rules[i], r.authorization,
                         IF r.slug # Absent /\ FindOne(r.slug).found
                         THEN FindOne(r.slug).id ELSE Absent,
                         r.userId) = "true"
         THEN RulesAlone(rules, i + 1, r)
         ELSE "deny"

DecisionAlone(r) ==
    IF r.missing THEN "deny"
    ELSE IF IsPublicRoute(r.url) THEN "allow"
    ELSE IF r.authorization = Absent THEN "deny"
    ELSE IF ConfiguredFor(r.route).rules = << >> THEN "deny"
    ELSE RulesAlone(ConfiguredFor(r.route).rules, 1, r)

\* No lookup failed in the call: it did not throw, or a rule did.
NoLookupFailed(c) ==
    \/ ~call[c].threw
    \/ call[c].req.missing
    \/ (Len(call[c].log) > 0 /\ call[c].log[Len(call[c].log)].out = "throw")

\* C9: under any interleaving, a call in which no lookup fails returns the
\* decision it would return running alone.
C9_SameDecisionAsAlone ==
    \A c \in Calls :
        Done(c) /\ NoLookupFailed(c) => call[c].result = DecisionAlone(call[c].req)

\* C10: a call ends in allow exactly when its request is on a public route,
\* or carries an authorization context and every rule of its non-empty
\* resolved rule set was invoked for it and returned true; every other
\* finished call ends in deny; a call that has not finished can take a step.
C10_AllowIsSound ==
    \A c \in Calls :
        /\ (Done(c) =>
              /\ call[c].result \in {"allow", "deny"}
              /\ (call[c].result = "allow" <=>
                    \/ OnPublicRoute(c)
                    \/ /\ OnGuardedRoute(c)
                       /\ call[c].req.authorization # Absent
                       /\ call[c].resolved
                       /\ call[c].authchecks.rules # << >>
                       /\ AllInvokedAndPassed(c)))
        /\ (Started(c) /\ ~Done(c) =>
              ENABLED (OrgLookup(c) \/ WrapLookup(c) \/ WrapCompute(c) \/ Authcheck(c)))

C10_Witness ==
    \E c, d \in Calls :
        /\ Done(c) /\ OnGuardedRoute(c) /\ call[c].result = "allow"
        /\ Len(call[c].log) = 3
        /\ Done(d) /\ OnGuardedRoute(d) /\ call[d].result = "deny"
        /\ call[d].req.authorization # Absent
        /\ Len(call[d].log) = 1 /\ call[d].log[1].out = "false"

====
